---- MODULE Spec2Model ----
(***************************************************************************)
(* Model of the Invisible Watermark API (src/main.py): the in-memory       *)
(* record store DB, the persisted reference images under storage/embeds,   *)
(* and the two request handlers embed_endpoint and verify_endpoint.        *)
(*                                                                         *)
(* Both handlers are `async def` bodies without an await, so each request  *)
(* runs to completion before the next one starts: one action per handler.  *)
(* The blind_watermark library, the image codec and the file system are    *)
(* external; they are modelled by what the handlers observe of them, on    *)
(* abstract images (a visual class, the payload carried, a geometry        *)
(* class).                                                                 *)
(***************************************************************************)
EXTENDS Integers, Sequences, FiniteSets, TLC

VARIABLES DB, storage, issued, resp, memo

vars == <<DB, storage, issued, resp, memo>>

\* Bound of the model: how many records the store may come to hold.
MaxEmbeds == 2

(***************************************************************************)
(* Optional values (Python's None / a value).                              *)
(***************************************************************************)
None == <<>>
Some(x) == <<x>>

(***************************************************************************)
(* Texts are sequences of bytes (the UTF-8 encoding of a str).             *)
(***************************************************************************)
TextA == <<65>>
TextB == <<66>>
\* The texts callers of /embed supply.
UserTexts == {TextA}

\* The wm_text form field: absent, the empty string, or a text.
WmTextInputs == {None, Some(<<>>)} \cup {Some(t) : t \in UserTexts}

\* f"WM-{uuid.uuid4()}": "WM-" followed by the uuid (one character stands
\* for its 36).
UuidChars == {97}
Tokens == {<<87, 77, 45, u>> : u \in UuidChars}

\* The texts an uploaded image may carry (TextB: a watermark of the same
\* length as TextA that this store never issued).
AllTexts == UserTexts \cup {TextB} \cup Tokens

\* What a failed decode of the watermark bits yields (errors='replace').
Garbage == <<63>>

RECURSIVE BitWidth(_)
BitWidth(n) == IF n = 0 THEN 0 ELSE 1 + BitWidth(n \div 2)

\* len(bwm.wm_bit) after read_wm(text, mode='str'): the binary digits of the
\* big-endian integer of the text's bytes, leading zeros dropped.
WmBitLen(text) == 8 * (Len(text) - 1) + BitWidth(text[1])

(***************************************************************************)
(* Images and uploads.                                                     *)
(***************************************************************************)
Vis == {0, 1}
Geos == {"full", "crop", "scaled", "lost", "wreck"}
Image == [vis : Vis, wm : {None} \cup {Some(t) : t \in AllTexts}, geo : Geos]

Shape(img) == IF img.geo = "crop" THEN <<1, 1>> ELSE <<2, 2>>

BlankImage == [vis |-> 0, wm |-> None, geo |-> "full"]
Junk == [kind |-> "junk", img |-> BlankImage]
Png(img) == [kind |-> "png", img |-> img]
Uploads == {Junk} \cup {Png(i) : i \in Image}

\* cv2.imdecode of the uploaded bytes: None for bytes that are no image.
imdecode(upload) == IF upload.kind = "png" THEN Some(upload.img) ELSE None

\* The images offered to /embed.
SourceImages == {[vis |-> 0, wm |-> None, geo |-> g] : g \in {"full", "wreck"}}
SourceUploads == {Junk} \cup {Png(i) : i \in SourceImages}

(***************************************************************************)
(* Perceptual hash and Hamming distance.                                   *)
(***************************************************************************)
\* The 64 threshold bits (block > med) of an image, by visual class.
PhashBits(img) ==
    [i \in 1..64 |-> IF img.vis = 0 THEN i % 2
                     ELSE IF i \in {2, 33, 64} THEN 1 ELSE i % 2]

\* v = (v << 1) | b over the bits, then f"{v:016x}": 16 hex digits, most
\* significant first.
phash(img) ==
    LET b == PhashBits(img)
    IN  [d \in 1..16 |-> 8 * b[4*d - 3] + 4 * b[4*d - 2] + 2 * b[4*d - 1] + b[4*d]]

\* A count that leaves out the highest bit of each digit.
NibbleXorCount_Low3(x, y) ==
    LET bit(n, j) == (n \div (2^j)) % 2
        diff(j) == IF bit(x, j) # bit(y, j) THEN 1 ELSE 0
    IN  diff(0) + diff(1) + diff(2)

\* bit_count of the XOR of two hex digits.
NibbleXorCount(x, y) ==
    LET bit(n, j) == (n \div (2^j)) % 2
        diff(j) == IF bit(x, j) # bit(y, j) THEN 1 ELSE 0
    IN  diff(0) + diff(1) + diff(2) + diff(3)

RECURSIVE XorCountFrom(_, _, _)
XorCountFrom(a, b, d) ==
    IF d > Len(a) THEN 0
    ELSE NibbleXorCount(a[d], b[d]) + XorCountFrom(a, b, d + 1)

\* (int(a, 16) ^ int(b, 16)).bit_count()
hamming_distance_hex(a, b) == XorCountFrom(a, b, 1)

(***************************************************************************)
(* The blind_watermark library as the handlers use it.                     *)
(***************************************************************************)
\* bwm.read_img / read_wm / embed: raises on an image it cannot process.
WM_embed(img, text) ==
    IF img.geo = "wreck"
    THEN [raised |-> TRUE, out |-> img, wm_len |-> 0]
    ELSE [raised |-> FALSE,
          out |-> [vis |-> img.vis, wm |-> Some(text), geo |-> "full"],
          wm_len |-> WmBitLen(text)]

\* bwm.extract(path, wm_shape=wm_len, mode='str'): the carried text when the
\* image is geometrically intact and wm_len is the carried length; garbage
\* or an exception otherwise.
WM_extract(img, wm_len) ==
    IF img.geo = "full" /\ img.wm # None /\ WmBitLen(img.wm[1]) = wm_len
    THEN [raised |-> FALSE, text |-> img.wm[1]]
    ELSE IF img.geo \in {"crop", "wreck"}
    THEN [raised |-> TRUE, text |-> <<>>]
    ELSE [raised |-> FALSE, text |-> Garbage]

\* estimate_crop_parameters(original_file, template_file, ...)
estimate_crop_parameters(ref, img) ==
    IF img.geo = "wreck" THEN [raised |-> TRUE] ELSE [raised |-> FALSE]

\* recover_crop(template_file, output_file_name, loc, image_o_shape): the
\* image written to recovered_path.
recover_crop(img) ==
    [img EXCEPT !.geo = IF img.geo \in {"crop", "scaled"} THEN "full"
                        ELSE IF img.geo = "lost" THEN "wreck"
                        ELSE img.geo]

(***************************************************************************)
(* The record store and the persisted references.                          *)
(***************************************************************************)
\* os.path.join("storage", "embeds", f"{watermark_id}.png")
PersistPath(id) == <<"storage", "embeds", id>>

\* An identity that is minted again.
MintId_Reused(db) == 1

\* str(uuid.uuid4()) for a new record: an identity not minted before.
MintId(db) == Cardinality(DOMAIN db) + 1

\* An insert that rebinds the whole store and so loses the other records.
DbPut_Rebind(db, id, rec) == [k \in {id} |-> rec]

\* DB[watermark_id] = {...}
DbPut(db, id, rec) ==
    [k \in DOMAIN db \cup {id} |-> IF k = id THEN rec ELSE db[k]]

\* cv2.imwrite(path, img): the file holds the image when the write succeeds;
\* a failed write returns False, which the caller does not look at.
imwrite(store, path, img, ok) ==
    IF ok THEN [p \in DOMAIN store \cup {path} |-> IF p = path THEN img ELSE store[p]]
    ELSE store

\* The identities a verify request may name: every one that can be minted,
\* and one more.
Ids == 1..(MaxEmbeds + 1)

Idle == [op |-> "idle"]

\* A response together with the temporary files the request created and did
\* not remove before it ended.
LeftBehind(r, created, removed) ==
    [f \in DOMAIN r \cup {"temps"} |-> IF f = "temps" THEN created \ removed ELSE r[f]]

(***************************************************************************)
(* POST /embed                                                             *)
(***************************************************************************)
EmbedError(http, detail, upload, wm_text, calls) ==
    [op |-> "embed", http |-> http, detail |-> detail, upload |-> upload,
     wm_text |-> wm_text, calls |-> calls]

\* A default that replaces the caller's text as well.
EffectiveText_AlwaysToken(wm_text, token) == token

\* if not wm_text: wm_text = f"WM-{uuid.uuid4()}"
EffectiveText(wm_text, token) ==
    IF wm_text = None \/ wm_text[1] = <<>> THEN token ELSE wm_text[1]

\* A record whose wm_len is the text's length in bytes times 8, not the
\* number of watermark bits.
NewRecord_ByteLen(text, wm_len, embedded, src, id) ==
    [wm_text |-> text, wm_len |-> 8 * Len(text), phash |-> phash(embedded),
     shape |-> Shape(src), file_path |-> PersistPath(id)]

\* The record written at step 7.
NewRecord(text, wm_len, embedded, src, id) ==
    [wm_text |-> text, wm_len |-> wm_len, phash |-> phash(embedded),
     shape |-> Shape(src), file_path |-> PersistPath(id)]

\* The whole handler. token is the uuid drawn at step 2; readable, persisted
\* and encoded are what cv2.imread(out_path), cv2.imwrite(persist_path) and
\* cv2.imencode report.
embed_endpoint(upload, wm_text, token, readable, persisted, encoded) ==
    LET img == imdecode(upload)
    IN  IF img = None
        THEN /\ resp' = LeftBehind(EmbedError(400, "Invalid image file", upload,
                                              wm_text, <<"imdecode">>), {}, {})
             /\ UNCHANGED <<DB, storage, issued>>
        ELSE
        LET text == EffectiveText(wm_text, token)
            e == WM_embed(img[1], text)
        IN  IF e.raised
            THEN /\ resp' = LeftBehind(EmbedError(500, "Internal Server Error", upload,
                                                  wm_text, <<"imdecode", "embed">>),
                                       {"in_path"}, {})
                 /\ UNCHANGED <<DB, storage, issued>>
            ELSE IF ~readable
            THEN /\ resp' = LeftBehind(EmbedError(500, "Embedded image not readable",
                                                  upload, wm_text,
                                                  <<"imdecode", "embed", "imread">>),
                                       {"in_path", "out_path"}, {"in_path", "out_path"})
                 /\ UNCHANGED <<DB, storage, issued>>
            ELSE
            LET id == MintId(DB)
                embedded == e.out
                rec == NewRecord(text, e.wm_len, embedded, img[1], id)
            IN  /\ Cardinality(DOMAIN DB) < MaxEmbeds
                /\ storage' = imwrite(storage, PersistPath(id), embedded, persisted)
                /\ DB' = DbPut(DB, id, rec)
                /\ IF encoded
                   THEN /\ resp' = [op |-> "embed", http |-> 200, detail |-> "",
                                    upload |-> upload, wm_text |-> wm_text,
                                    temps |-> {"in_path", "out_path"}
                                                 \ {"in_path", "out_path"},
                                    calls |-> <<"imdecode", "embed", "imread", "uuid4",
                                                "imwrite", "db_put", "imencode">>,
                                    body |-> [watermark_id |-> id,
                                              wm_len |-> e.wm_len,
                                              watermarked_image_base64 |-> Png(embedded),
                                              message |-> "Watermark embedded successfully.",
                                              file_url |-> <<"files", "embeds", id>>]]
                        /\ issued' = [k \in DOMAIN issued \cup {id} |->
                                         IF k = id
                                         THEN [image |-> embedded, text |-> text,
                                               n |-> Cardinality(DOMAIN issued) + 1]
                                         ELSE issued[k]]
                   ELSE /\ resp' = LeftBehind(
                                       EmbedError(500, "PNG encoding failed", upload, wm_text,
                                                  <<"imdecode", "embed", "imread", "uuid4",
                                                    "imwrite", "db_put", "imencode">>),
                                       {"in_path", "out_path"}, {})
                        /\ UNCHANGED issued

Embed ==
    /\ resp = Idle
    /\ \E upload \in SourceUploads, wm_text \in WmTextInputs, token \in Tokens,
          readable \in BOOLEAN, persisted \in BOOLEAN, encoded \in BOOLEAN :
          embed_endpoint(upload, wm_text, token, readable, persisted, encoded)
    /\ UNCHANGED memo

(***************************************************************************)
(* POST /verify                                                            *)
(***************************************************************************)
VerifyError(http, detail, upload, wid, try_recover, calls) ==
    [op |-> "verify", http |-> http, detail |-> detail, upload |-> upload,
     wid |-> wid, try_recover |-> try_recover, calls |-> calls]

\* ref_path and os.path.exists(ref_path)
RefExists(store, meta) == meta.file_path \in DOMAIN store

\* A gate that forgets the caller's flag.
RecoveryRequested_Always(extracted, meta, try_recover) ==
    extracted # Some(meta.wm_text)

\* (extracted != expected_text) and try_recover
RecoveryRequested(extracted, meta, try_recover) ==
    extracted # Some(meta.wm_text) /\ try_recover

\* An except clause that swallows the exception and records nothing.
RecoveryError_Silent(extracted, details, step, msg, calls) ==
    [extracted |-> extracted, extracted_re |-> None, details |-> details,
     failed |-> step, calls |-> calls]

\* except Exception as e: details["recovery_error"] = str(e), for an
\* exception raised by `step`; `extracted` keeps the result of step 2.
RecoveryError(extracted, details, step, msg, calls) ==
    [extracted |-> extracted, extracted_re |-> None,
     details |-> details @@ ("recovery_error" :> msg),
     failed |-> step, calls |-> calls]

\* Step 3 of the handler: the recovery attempt and what it leaves in
\* `extracted` and `details`. extracted is the result of step 2.
Recovery(store, meta, img, extracted, try_recover) ==
    LET requested == RecoveryRequested(extracted, meta, try_recover)
    IN  IF requested /\ RefExists(store, meta)
        THEN LET est == estimate_crop_parameters(store[meta.file_path], img)
                 x == WM_extract(recover_crop(img), meta.wm_len)
             IN  IF est.raised
                 THEN RecoveryError(extracted, <<>>, "estimate_crop_parameters",
                                    "estimate failed",
                                    <<"estimate_crop_parameters">>)
                 ELSE IF x.raised
                 THEN RecoveryError(extracted, ("estimated" :> "box"), "extract",
                                    "extract failed",
                                    <<"estimate_crop_parameters", "recover_crop",
                                      "extract">>)
                 ELSE IF x.text = meta.wm_text
                 THEN [extracted |-> Some(x.text), extracted_re |-> Some(x.text),
                       details |-> ("estimated" :> "box") @@ ("recovered" :> "True"),
                       failed |-> "",
                       calls |-> <<"estimate_crop_parameters", "recover_crop", "extract">>]
                 ELSE [extracted |-> extracted, extracted_re |-> Some(x.text),
                       details |-> ("estimated" :> "box"),
                       failed |-> "",
                       calls |-> <<"estimate_crop_parameters", "recover_crop", "extract">>]
        ELSE IF requested /\ ~RefExists(store, meta)
        THEN [extracted |-> extracted, extracted_re |-> None,
              details |-> ("recovery_error" :>
                              "Reference embedded PNG not found on server."),
              failed |-> "",
              calls |-> <<>>]
        ELSE [extracted |-> extracted, extracted_re |-> None, details |-> <<>>,
              failed |-> "", calls |-> <<>>]

\* A status that reads the distance the wrong way round.
Status_Swapped(watermark_found, dist) ==
    IF watermark_found
    THEN IF dist = 0 THEN "modified_but_watermark_intact" ELSE "same"
    ELSE "tampered_or_not_watermarked"

\* Step 4: the status of a result.
Status(watermark_found, dist) ==
    IF watermark_found
    THEN IF dist = 0 THEN "same" ELSE "modified_but_watermark_intact"
    ELSE "tampered_or_not_watermarked"

\* A details field that is sent even when the dictionary is empty.
DetailsField_Always(details) == Some(details)

\* details=details if details else None
DetailsField(details) ==
    IF DOMAIN details = {} THEN None ELSE Some(details)

\* A response that returns whatever was extracted.
ExtractedWatermark_Leak(watermark_found, extracted) == extracted

\* extracted_watermark=extracted if watermark_found else None
ExtractedWatermark(watermark_found, extracted) ==
    IF watermark_found THEN extracted ELSE None

\* The whole handler: the response to verify(upload, wid, try_recover) in a
\* store db with the files store.
verify_endpoint(db, store, upload, wid, try_recover) ==
    IF wid \notin DOMAIN db
    THEN LeftBehind(VerifyError(404, "Unknown watermark_id", upload, wid,
                                try_recover, <<"db_get">>), {}, {})
    ELSE
    LET meta == db[wid]
        edited == imdecode(upload)
    IN  IF edited = None
        THEN LeftBehind(VerifyError(400, "Invalid image file", upload, wid,
                                    try_recover, <<"db_get", "imdecode">>), {}, {})
        ELSE
        LET img == edited[1]
            x == WM_extract(img, meta.wm_len)
            direct == IF x.raised THEN None ELSE Some(x.text)
            r == Recovery(store, meta, img, direct, try_recover)
            dist == hamming_distance_hex(meta.phash, phash(img))
            watermark_found == (r.extracted = Some(meta.wm_text))
            \* recovered_path is named before recover_crop writes it
            recovered == IF \E i \in 1..Len(r.calls) : r.calls[i] = "recover_crop"
                         THEN {"recovered_path"} ELSE {}
        IN  [op |-> "verify", http |-> 200, detail |-> "", upload |-> upload,
             wid |-> wid, try_recover |-> try_recover,
             calls |-> <<"db_get", "imdecode", "extract">> \o r.calls
                          \o <<"phash", "hamming_distance_hex">>,
             direct |-> direct, extracted_re |-> r.extracted_re,
             recovery_failed |-> r.failed,
             temps |-> ({"tmp_in"} \cup recovered) \ ({"tmp_in"} \cup recovered),
             body |-> [watermark_found |-> watermark_found,
                       matches_expected |-> watermark_found,
                       status |-> Status(watermark_found, dist),
                       extracted_watermark |->
                           ExtractedWatermark(watermark_found, r.extracted),
                       phash_distance |-> dist,
                       details |-> DetailsField(r.details)]]

Verify ==
    /\ resp = Idle
    /\ \E upload \in Uploads, wid \in Ids, try_recover \in BOOLEAN :
          resp' = verify_endpoint(DB, storage, upload, wid, try_recover)
    /\ UNCHANGED <<DB, storage, issued, memo>>

\* The response is sent; the server takes the next request.
Reply ==
    /\ resp # Idle
    /\ resp' = Idle
    /\ UNCHANGED <<DB, storage, issued, memo>>

Init ==
    /\ DB = <<>>
    /\ storage = <<>>
    /\ issued = <<>>
    /\ resp = Idle
    /\ memo = None

Next == Embed \/ Verify \/ Reply

Spec == Init /\ [][Next]_vars

(***************************************************************************)
(* A second specification, for properties of two verify requests: one      *)
(* answered verify request is remembered in memo, and later requests are   *)
(* compared with it.                                                       *)
(***************************************************************************)
\* The candidates the repeated requests upload: an edited copy of a
\* watermarked image, intact or rescaled.
ProbeUploads ==
    {Png([vis |-> 1, wm |-> Some(TextA), geo |-> g]) : g \in {"full", "scaled"}}

Remembered(r, n) ==
    [wid |-> r.wid, upload |-> r.upload, try_recover |-> r.try_recover,
     watermark_found |-> r.body.watermark_found,
     extracted_watermark |-> r.body.extracted_watermark, records |-> n]

VerifyRepeat ==
    /\ resp = Idle
    /\ \E upload \in ProbeUploads, wid \in Ids, try_recover \in BOOLEAN :
          /\ resp' = verify_endpoint(DB, storage, upload, wid, try_recover)
          /\ IF memo = None /\ resp'.http = 200
             THEN memo' \in {None, Some(Remembered(resp', Cardinality(DOMAIN DB)))}
             ELSE memo' = memo
    /\ UNCHANGED <<DB, storage, issued>>

NextRepeat == Embed \/ VerifyRepeat \/ Reply

SpecRepeat == Init /\ [][NextRepeat]_vars

(***************************************************************************)
(* A third specification, for the functions that are called on their own:  *)
(* the adapters' extract, phash and hamming_distance_hex. resp holds the   *)
(* call and what it returned, until Reply clears it for the next call.     *)
(***************************************************************************)
\* metadata as an adapter's embed returns it for a text.
Metadata == {[wm_text |-> t, wm_len |-> WmBitLen(t)] : t \in AllTexts}

\* What a call gave back: a value, or an exception that left the function.
Returned(v) == [raised |-> FALSE, value |-> v]
Raised == [raised |-> TRUE, value |-> None]

\* BlindWatermarkAdapter.extract(image_path, metadata)
BlindWatermarkAdapter_extract(img, metadata) ==
    LET x == WM_extract(img, metadata.wm_len)
    IN  IF x.raised THEN Returned(None)
        ELSE IF x.text = metadata.wm_text THEN Returned(Some(x.text))
        ELSE Returned(None)

\* Image.open(image_path) and tm.decode(cover) of the trustmark library:
\* (wm_secret, wm_present); Image.open raises on a file it cannot read.
TM_decode(img) ==
    IF img.geo = "wreck" THEN [raised |-> TRUE, wm_secret |-> <<>>, wm_present |-> FALSE]
    ELSE IF img.wm = None \/ img.geo # "full"
    THEN [raised |-> FALSE, wm_secret |-> <<>>, wm_present |-> FALSE]
    ELSE [raised |-> FALSE, wm_secret |-> img.wm[1], wm_present |-> TRUE]

\* TrustmarkAdapter.extract(image_path, metadata)
TrustmarkAdapter_extract(img, metadata) ==
    LET x == TM_decode(img)
    IN  IF x.raised THEN Raised
        ELSE IF x.wm_present THEN Returned(Some(x.wm_secret))
        ELSE Returned(None)

BlindExtract ==
    /\ resp = Idle
    /\ \E img \in Image, metadata \in Metadata :
          resp' = [op |-> "BlindWatermarkAdapter.extract", img |-> img,
                   metadata |-> metadata,
                   out |-> BlindWatermarkAdapter_extract(img, metadata)]
    /\ UNCHANGED <<DB, storage, issued, memo>>

TrustmarkExtract ==
    /\ resp = Idle
    /\ \E img \in Image, metadata \in Metadata :
          resp' = [op |-> "TrustmarkAdapter.extract", img |-> img,
                   metadata |-> metadata,
                   out |-> TrustmarkAdapter_extract(img, metadata)]
    /\ UNCHANGED <<DB, storage, issued, memo>>

\* The fingerprints the distance is taken of: those of the images, and the
\* 16-digit strings that have one digit of their own among equal digits.
FingerprintPositions == {1, 8, 16}
FingerprintFills == {0, 15}
Fingerprints ==
    {phash(i) : i \in Image} \cup
    {[d \in 1..16 |-> IF d = pos THEN val ELSE fill] :
        pos \in FingerprintPositions, val \in 0..15, fill \in FingerprintFills}

Fingerprint ==
    /\ resp = Idle
    /\ \E img \in Image : resp' = [op |-> "phash", img |-> img, out |-> phash(img)]
    /\ UNCHANGED <<DB, storage, issued, memo>>

Distance ==
    /\ resp = Idle
    /\ \E a \in Fingerprints, b \in Fingerprints :
          resp' = [op |-> "hamming_distance_hex", a |-> a, b |-> b,
                   out |-> hamming_distance_hex(a, b),
                   back |-> hamming_distance_hex(b, a)]
    /\ UNCHANGED <<DB, storage, issued, memo>>

NextUnits == BlindExtract \/ TrustmarkExtract \/ Fingerprint \/ Distance \/ Reply

SpecUnits == Init /\ [][NextUnits]_vars

(***************************************************************************)
(* Properties.                                                             *)
(***************************************************************************)
VerifyAnswered == resp.op = "verify" /\ resp.http = 200

Called(step) == \E i \in 1..Len(resp.calls) : resp.calls[i] = step

\* The number of differing bits of two fingerprints of 16 hex digits.
BitsApart(a, b) ==
    Cardinality({p \in (1..16) \X (0..3) :
                    (a[p[1]] \div (2^p[2])) % 2 # (b[p[1]] \div (2^p[2])) % 2})

\* C1: in every verify result watermark_found equals matches_expected and is
\* true only when the payload obtained by direct extraction or by recovery
\* equals the record's payload; extracted_watermark is non-null only then and
\* is then the record's payload, so an extracted or recovered payload that does
\* not match is never returned.
C1_FoundOnlyOnMatch ==
    VerifyAnswered =>
        LET b == resp.body
            expected == DB[resp.wid].wm_text
            endedFound == \/ resp.direct = Some(expected)
                          \/ resp.extracted_re = Some(expected)
        IN  /\ b.watermark_found = b.matches_expected
            /\ b.watermark_found => endedFound
            /\ b.extracted_watermark # None => endedFound
            /\ endedFound => b.extracted_watermark = Some(expected)
            /\ b.extracted_watermark \in {None, Some(expected)}

\* A verify result for which a payload was extracted, directly and again after
\* recovery, that is not the record's payload.
C1_Witness ==
    /\ VerifyAnswered
    /\ resp.direct = Some(TextB)
    /\ resp.extracted_re = Some(TextB)
    /\ DB[resp.wid].wm_text = TextA
    /\ resp.body.extracted_watermark = None

\* C2: a verify request whose identity was never returned by a successful
\* embed ends in the 404 error, whatever the candidate and the try_recover
\* flag, and the record lookup is its only step.
C2_UnknownIdentity ==
    (resp.op = "verify" /\ resp.wid \notin DOMAIN issued) =>
        /\ resp.http = 404
        /\ resp.calls = <<"db_get">>

\* C3: a verify request with try_recover = false never runs the recovery step
\* (no parameter estimation, no crop recovery, no second extraction), and when
\* its direct extraction did not match it ends not found.
C3_NoRecoveryUnlessRequested ==
    (resp.op = "verify" /\ ~resp.try_recover) =>
        /\ ~Called("estimate_crop_parameters")
        /\ ~Called("recover_crop")
        /\ Cardinality({i \in 1..Len(resp.calls) : resp.calls[i] = "extract"}) <= 1
        /\ (resp.http = 200 /\ resp.direct # Some(DB[resp.wid].wm_text)) =>
               /\ ~resp.body.watermark_found
               /\ resp.body.status = "tampered_or_not_watermarked"
               /\ resp.extracted_re = None

\* A verify request without recovery, on a cropped copy carrying the record's
\* payload whose direct extraction raised and whose reference exists: recovery
\* would have found the watermark.
C3_Witness ==
    /\ VerifyAnswered
    /\ ~resp.try_recover
    /\ resp.direct = None
    /\ resp.upload.img.geo = "crop"
    /\ resp.upload.img.wm = Some(DB[resp.wid].wm_text)
    /\ RefExists(storage, DB[resp.wid])
    /\ ~resp.body.watermark_found

\* C4: the status of a verify result is "same" exactly when the watermark was
\* found and the record's fingerprint and the candidate's are 0 bits apart,
\* "modified_but_watermark_intact" exactly when it was found and they are more
\* than 0 bits apart, and "tampered_or_not_watermarked" when it was not found,
\* whatever the distance.
C4_StatusByDistance ==
    VerifyAnswered =>
        LET b == resp.body
            d == BitsApart(DB[resp.wid].phash, phash(resp.upload.img))
        IN  /\ b.phash_distance = d
            /\ (b.status = "same") <=> (b.watermark_found /\ d = 0)
            /\ (b.status = "modified_but_watermark_intact") <=>
                   (b.watermark_found /\ d > 0)
            /\ (b.status = "tampered_or_not_watermarked") <=> ~b.watermark_found

\* A found watermark on a visibly edited copy.
C4_Witness ==
    /\ VerifyAnswered
    /\ resp.body.watermark_found
    /\ resp.body.phash_distance > 0
    /\ resp.body.status = "modified_but_watermark_intact"

\* C5: when an embed succeeded with identity K, a later verify of the unchanged
\* watermarked image that embed returned, against K, finds the watermark:
\* watermark_found, matches_expected, and extracted_watermark is the payload
\* that was embedded.
C5_RoundTrip ==
    (/\ resp.op = "verify"
     /\ resp.wid \in DOMAIN issued
     /\ resp.upload = Png(issued[resp.wid].image)) =>
        /\ resp.http = 200
        /\ resp.body.watermark_found
        /\ resp.body.matches_expected
        /\ resp.body.extracted_watermark = Some(issued[resp.wid].text)

\* The first embed's image verified against its identity after a second embed,
\* with a caller's payload.
C5_Witness ==
    /\ VerifyAnswered
    /\ resp.wid = 1
    /\ 1 \in DOMAIN issued
    /\ resp.upload = Png(issued[1].image)
    /\ issued[1].text = TextA
    /\ Cardinality(DOMAIN DB) >= 2
    /\ resp.body.extracted_watermark = Some(TextA)

\* C6: the store is append-only: a record is created only by a successful
\* embed, under an identity that was not a key of the store; every record keeps
\* its contents and is never removed; verify leaves the store unchanged.
C6_AppendOnly ==
    [][/\ \A k \in DOMAIN DB : k \in DOMAIN DB' /\ DB'[k] = DB[k]
       /\ DB' # DB =>
             /\ resp'.op = "embed"
             /\ resp'.http = 200
             /\ resp'.body.watermark_id \notin DOMAIN DB
             /\ DOMAIN DB' = DOMAIN DB \cup {resp'.body.watermark_id}
       /\ resp'.op = "verify" => DB' = DB]_vars

\* The part of C6 that does not depend on the embed's success: records are
\* only added, by embed, and never changed or removed.
StoreOnlyGrows ==
    [][/\ \A k \in DOMAIN DB : k \in DOMAIN DB' /\ DB'[k] = DB[k]
       /\ DB' # DB => resp'.op = "embed" /\ Cardinality(DOMAIN DB') = Cardinality(DOMAIN DB) + 1
       /\ resp'.op = "verify" => DB' = DB]_vars

SameCall(m) == m.wid = resp.wid /\ m.upload = resp.upload

SameResult(m) ==
    /\ resp.body.watermark_found = m.watermark_found
    /\ resp.body.extracted_watermark = m.extracted_watermark

\* C7 as claimed: two verify results for the same identity (one a successful
\* embed returned) and the same candidate have the same watermark_found and
\* extracted_watermark.
C7_SameCandidateSameResult ==
    (/\ VerifyAnswered
     /\ resp.wid \in DOMAIN issued
     /\ memo # None
     /\ SameCall(memo[1])) => SameResult(memo[1])

\* C7 as amended: two verify results for the same identity, the same candidate
\* and the same try_recover flag have the same watermark_found and
\* extracted_watermark, whatever embeds and verifies ran between them.
C7_SameRequestSameResult ==
    (/\ VerifyAnswered
     /\ memo # None
     /\ SameCall(memo[1])
     /\ memo[1].try_recover = resp.try_recover) => SameResult(memo[1])

\* A repeated request that found the watermark by recovery, with an embed
\* between the two.
C7_Witness ==
    /\ VerifyAnswered
    /\ memo # None
    /\ SameCall(memo[1])
    /\ memo[1].try_recover = resp.try_recover
    /\ memo[1].records < Cardinality(DOMAIN DB)
    /\ resp.upload.img.geo = "scaled"
    /\ resp.body.watermark_found

\* C8: the store holds a record only for an embed request that returned
\* success to its caller.
C8_NoRecordWithoutSuccess ==
    \A k \in DOMAIN DB : k \in DOMAIN issued

\* C9: every record stores the backend type that produced its metadata.
C9_RecordNamesBackend ==
    \A k \in DOMAIN DB : "adapter_type" \in DOMAIN DB[k]

C12_TempFilesReleased ==
    resp.op \in {"embed", "verify"} => resp.temps = {}

\* C13: every failed embed carries the status class of its failure: an
\* undecodable input is a client error (4xx), a failure of the backend's embed
\* is a client error (4xx), an output that cannot be read back is a server
\* error (5xx).
C13_EmbedFailureClasses ==
    (resp.op = "embed" /\ resp.http # 200) =>
        LET failed == resp.calls[Len(resp.calls)]
        IN  /\ failed = "imdecode" => resp.http \in 400..499
            /\ failed = "embed" => resp.http \in 400..499
            /\ failed = "imread" => resp.http \in 500..599

\* C16: every record's reference location is the one derived from its
\* identity, a stored image exists there, and for a record whose embed
\* answered it is the image that was returned to the caller.
C16_ReferenceStored ==
    \A k \in DOMAIN DB :
        /\ DB[k].file_path = PersistPath(k)
        /\ DB[k].file_path \in DOMAIN storage
        /\ k \in DOMAIN issued => storage[DB[k].file_path] = issued[k].image

\* The five fields of a record.
RecordFields == {"wm_text", "wm_len", "phash", "shape", "file_path"}

\* C17: requests are served one at a time by the event loop (the handlers
\* never await), so every interleaving is a serial order of whole handlers.
\* In every such order no insert is lost and no read is torn: the N embeds
\* that succeeded so far have N pairwise distinct identities, each of them
\* in the store with the contents its embed wrote, and a verify request sees
\* either no record of its identity (404) or the complete record.
C17_NoLostInsertNoTornRead ==
    /\ {issued[k].n : k \in DOMAIN issued} = 1..Cardinality(DOMAIN issued)
    /\ \A k \in DOMAIN issued :
          /\ k \in DOMAIN DB
          /\ DOMAIN DB[k] = RecordFields
          /\ DB[k].wm_text = issued[k].text
          /\ DB[k].phash = phash(issued[k].image)
          /\ DB[k].file_path = PersistPath(k)
    /\ resp.op = "verify" =>
          IF resp.wid \in DOMAIN DB
          THEN resp.http # 404 /\ DOMAIN DB[resp.wid] = RecordFields
          ELSE resp.http = 404

C17_Witness ==
    /\ Cardinality(DOMAIN issued) = 2
    /\ resp.op = "embed" /\ resp.http = 200
    /\ resp.body.watermark_id = 2
    /\ issued[1].text # issued[2].text

\* C18: the details of a verify result are present exactly when the direct
\* extraction did not match and recovery was requested; they are null when
\* the direct extraction matched or try_recover was false; and they carry
\* recovered = True only in a result with watermark_found = true.
C18_DetailsOnlyOnRecovery ==
    VerifyAnswered =>
        LET details == resp.body.details
            expected == DB[resp.wid].wm_text
        IN  /\ details # None <=> (resp.direct # Some(expected) /\ resp.try_recover)
            /\ details # None => DOMAIN details[1] # {}
            /\ (/\ details # None
                /\ "recovered" \in DOMAIN details[1]
                /\ details[1].recovered = "True") => resp.body.watermark_found

C18_Witness ==
    /\ VerifyAnswered /\ resp.try_recover
    /\ resp.direct # Some(DB[resp.wid].wm_text)
    /\ resp.body.details # None
    /\ "recovered" \in DOMAIN resp.body.details[1]
    /\ resp.body.watermark_found

\* C19: every record holds a non-empty payload; an embed that wrote a record
\* stored the caller's text unchanged when one was supplied and a fresh
\* token otherwise, and the token was chosen before the backend embedded, so
\* the image carries the stored payload.
C19_PayloadNeverEmpty ==
    /\ \A k \in DOMAIN DB : DB[k].wm_text # <<>>
    /\ (resp.op = "embed" /\ resp.http = 200) =>
          LET id == resp.body.watermark_id
              supplied == resp.wm_text
          IN  /\ IF supplied # None /\ supplied[1] # <<>>
                 THEN DB[id].wm_text = supplied[1]
                 ELSE DB[id].wm_text \in Tokens
              /\ issued[id].image.wm = Some(DB[id].wm_text)

C19_Witness ==
    /\ resp.op = "embed" /\ resp.http = 200
    /\ resp.wm_text = Some(<<>>)
    /\ DB[resp.body.watermark_id].wm_text \in Tokens
    /\ Cardinality(DOMAIN DB) = 2
    /\ \E k \in DOMAIN DB : DB[k].wm_text = TextA

\* C14: extract of either adapter returns nothing or exactly the payload of
\* the metadata; it never raises and never returns another string.
C14_ExtractAbsentOrExpected ==
    resp.op \in {"BlindWatermarkAdapter.extract", "TrustmarkAdapter.extract"} =>
        /\ ~resp.out.raised
        /\ resp.out.value \in {None, Some(resp.metadata.wm_text)}

\* C15: the distance of two fingerprints of 16 hex digits is the number of
\* bits in which they differ: it lies in 0..64, is the same in both
\* directions, and is 0 exactly for equal fingerprints; phash gives such
\* fingerprints.
C15_DistanceIsBitCount ==
    /\ resp.op = "hamming_distance_hex" =>
          /\ resp.out \in 0..64
          /\ resp.out = resp.back
          /\ resp.out = 0 <=> resp.a = resp.b
          /\ resp.out = BitsApart(resp.a, resp.b)
    /\ resp.op = "phash" =>
          /\ Len(resp.out) = 16
          /\ \A d \in 1..16 : resp.out[d] \in 0..15

C15_Witness ==
    /\ resp.op = "hamming_distance_hex"
    /\ resp.out = 64
    /\ resp.a[1] = 15 /\ resp.b[16] = 0

====
